---------------------------- MODULE Spec2Model ----------------------------
(***************************************************************************)
(* Tokenizer resolution and caching of refact-agent/engine:                *)
(*   src/refact-agent/engine/src/tokens.rs                                 *)
(*   src/refact-agent/engine/src/tiktoken_wrapper.rs                       *)
(*                                                                         *)
(* Strings (model ids, tokenizer descriptors, paths) are sequences of      *)
(* one-character strings, so that prefix tests, splitting, sanitization    *)
(* and path operations are computed the way the code computes them.        *)
(***************************************************************************)
EXTENDS Integers, Sequences, FiniteSets, TLC

(***************************************************************************)
(* Bounds of the model.                                                    *)
(***************************************************************************)
\* Total number of cached_tokenizer calls started in one behaviour.
MaxCalls == 2

\* Failures the environment (network, server, filesystem) injects in one
\* behaviour that makes several calls.
MaxFaults == 1

\* The concurrent callers of cached_tokenizer.
Callers == {"c1", "c2"}

(***************************************************************************)
(* String helpers (std::str).                                              *)
(***************************************************************************)
StartsWith(s, p) == Len(s) >= Len(p) /\ SubSeq(s, 1, Len(p)) = p

\* Index of the first occurrence of character ch in s, 0 when absent.
FirstIndex(s, ch) ==
    IF \E i \in 1..Len(s) : s[i] = ch
    THEN CHOOSE i \in 1..Len(s) : s[i] = ch /\ \A j \in 1..(i - 1) : s[j] # ch
    ELSE 0

\* Index of the last occurrence of character ch in s, 0 when absent.
LastIndex(s, ch) ==
    IF \E i \in 1..Len(s) : s[i] = ch
    THEN CHOOSE i \in 1..Len(s) : s[i] = ch /\ \A j \in (i + 1)..Len(s) : s[j] # ch
    ELSE 0

\* str::contains(pattern)
Contains(s, p) ==
    \E i \in 1..(Len(s) - Len(p) + 1) : SubSeq(s, i, i + Len(p) - 1) = p

\* str::replace(pat, rep): every non-overlapping occurrence, left to right.
RECURSIVE Replace(_, _, _)
Replace(s, pat, rep) ==
    IF Len(s) < Len(pat) \/ Len(pat) = 0 THEN s
    ELSE IF SubSeq(s, 1, Len(pat)) = pat
         THEN rep \o Replace(SubSeq(s, Len(pat) + 1, Len(s)), pat, rep)
         ELSE <<s[1]>> \o Replace(SubSeq(s, 2, Len(s)), pat, rep)

\* char::is_alphanumeric on the alphabet the model uses.
Alphanumeric ==
    {"a", "b", "c", "d", "e", "f", "g", "h", "i", "j", "k", "l", "m", "n",
     "o", "p", "q", "r", "s", "t", "u", "v", "w", "x", "y", "z",
     "0", "1", "2", "3", "4", "5", "6", "7", "8", "9"}

is_alphanumeric(ch) == ch \in Alphanumeric

(***************************************************************************)
(* Path helpers (std::path::Path on a Unix path without "." or ".."        *)
(* components and without a trailing separator).                           *)
(***************************************************************************)
Sep == "/"

\* Path::file_name
file_name(p) == SubSeq(p, LastIndex(p, Sep) + 1, Len(p))

\* Path::parent().unwrap_or(path): the path without its last component.
parent(p) ==
    IF LastIndex(p, Sep) = 0 THEN <<>>
    ELSE IF LastIndex(p, Sep) = 1 THEN <<Sep>>
    ELSE SubSeq(p, 1, LastIndex(p, Sep) - 1)

\* Path::join(name) for a relative name.
join(p, name) ==
    IF Len(p) = 0 THEN name
    ELSE IF p[Len(p)] = Sep THEN p \o name
    ELSE p \o <<Sep>> \o name

\* Path::extension: the part of the file name after its last ".", <<>> when
\* the file name has no "." or only a leading one.
extension(p) ==
    LET fname == file_name(p)
        dot == LastIndex(fname, ".")
    IN  IF dot <= 1 THEN <<>> ELSE SubSeq(fname, dot + 1, Len(fname))

\* Path::with_file_name
with_file_name(p, name) == join(parent(p), name)

(***************************************************************************)
(* Literals of the code.                                                   *)
(***************************************************************************)
TokenizerJson == <<"t","o","k","e","n","i","z","e","r",".","j","s","o","n">>
TiktokenModel == <<"t","i","k","t","o","k","e","n",".","m","o","d","e","l">>
TokenizerConfigJson ==
    <<"t","o","k","e","n","i","z","e","r","_","c","o","n","f","i","g",".","j","s","o","n">>
TokenizersDir == <<"t","o","k","e","n","i","z","e","r","s">>
FakePrefix == <<"f","a","k","e">>
HfPrefix == <<"h","f",":","/","/">>
HttpPrefix == <<"h","t","t","p",":","/","/">>
HttpsPrefix == <<"h","t","t","p","s",":","/","/">>
FilePrefix == <<"f","i","l","e",":","/","/">>
JsonExt == <<"j","s","o","n">>
ModelExt == <<"m","o","d","e","l">>
HfModelVar == <<"$","H","F","_","M","O","D","E","L">>


(***************************************************************************)
(* Model records (caps::BaseModelRecord: id, tokenizer, tokenizer_api_key) *)
(* that callers resolve.  One record per kind of tokenizer descriptor,     *)
(* plus a fine-tune of a remote model (same normalized id) and a remote    *)
(* model whose id differs but sanitizes to the same cache path.            *)
(***************************************************************************)
ModelRecords ==
    [ hf      |-> [id |-> <<"a","/","b">>,
                   tokenizer |-> HfPrefix \o <<"m">>,
                   tokenizer_api_key |-> <<>>],
      ft      |-> [id |-> <<"a","/","b",":","1">>,
                   tokenizer |-> HfPrefix \o <<"m">>,
                   tokenizer_api_key |-> <<"k">>],
      http    |-> [id |-> <<"a","_","b">>,
                   tokenizer |-> HttpsPrefix \o <<"h">>,
                   tokenizer_api_key |-> <<>>],
      fake    |-> [id |-> <<"f">>,
                   tokenizer |-> FakePrefix,
                   tokenizer_api_key |-> <<>>],
      empty   |-> [id |-> <<"e">>,
                   tokenizer |-> <<>>,
                   tokenizer_api_key |-> <<>>],
      badurl  |-> [id |-> <<"u">>,
                   tokenizer |-> FilePrefix \o <<"h","/","x">>,
                   tokenizer_api_key |-> <<>>],
      dir     |-> [id |-> <<"d">>,
                   tokenizer |-> <<"/","d">>,
                   tokenizer_api_key |-> <<>>],
      missing |-> [id |-> <<"n">>,
                   tokenizer |-> FilePrefix \o <<"/","n">>,
                   tokenizer_api_key |-> <<>>],
      badcfg  |-> [id |-> <<"g">>,
                   tokenizer |-> <<"/","g">>,
                   tokenizer_api_key |-> <<>>],
      \* two fine-tunes of the model "d" that declare no usable tokenizer
      dfake   |-> [id |-> <<"d",":","1">>,
                   tokenizer |-> FakePrefix \o <<"2">>,
                   tokenizer_api_key |-> <<>>],
      dempty  |-> [id |-> <<"d",":","2">>,
                   tokenizer |-> <<>>,
                   tokenizer_api_key |-> <<>>],
      \* a directory named after the r50k table that holds tiktoken.model
      r50k    |-> [id |-> <<"g","p","t","2">>,
                   tokenizer |-> <<"/","r","5","0","k">>,
                   tokenizer_api_key |-> <<>>],
      \* a directory that holds a table file named after the r50k table
      r50kfile |-> [id |-> <<"q">>,
                   tokenizer |-> <<"/","q">>,
                   tokenizer_api_key |-> <<>>],
      \* a fine-tune of the model "d" whose tokenizer is another local one
      dfile   |-> [id |-> <<"d",":","3">>,
                   tokenizer |-> <<"/","q","/","r","5","0","k",".","m","o","d","e","l">>,
                   tokenizer_api_key |-> <<"k">>] ]

RecordNames == DOMAIN ModelRecords

\* What one behaviour does: the records its calls are drawn from, and
\* whether it is one call against an environment that may fail any number
\* of times (single), or MaxCalls calls against an environment that fails
\* at most MaxFaults times.
\*   - one call for a remote model: the whole retry loop, every failure;
\*   - a remote model and its fine-tune: one normalized id;
\*   - two remote models whose ids sanitize alike: one cache path;
\*   - the models that need no network;
\*   - a local model and fine-tunes of it with other descriptors: one
\*     normalized id;
\*   - local byte-pair models that name the r50k table;
\*   - a local model and a fine-tune of it with another tokenizer source.
Scenarios ==
    { [records |-> {"hf"}, single |-> TRUE],
      [records |-> {"hf", "ft"}, single |-> FALSE],
      [records |-> {"hf", "http"}, single |-> FALSE],
      [records |-> {"fake", "empty", "badurl", "dir", "missing", "badcfg"},
       single |-> FALSE],
      [records |-> {"dir", "dfake", "dempty"}, single |-> FALSE],
      [records |-> {"r50k", "r50kfile"}, single |-> FALSE],
      [records |-> {"dir", "dfile"}, single |-> FALSE] }

\* caps::strip_model_from_finetune: the model id up to its fine-tune suffix
\* (the part from the first ":" on).
strip_model_from_finetune(id) ==
    IF FirstIndex(id, ":") = 0 THEN id ELSE SubSeq(id, 1, FirstIndex(id, ":") - 1)

NormId(r) == strip_model_from_finetune(ModelRecords[r].id)

NormIds == {NormId(r) : r \in RecordNames}

\* GlobalContext.cache_dir
cache_dir == <<"/","c">>

\* caps.hf_tokenizer_template / default_hf_tokenizer_template()
hf_tokenizer_template == <<"h","/">> \o HfModelVar \o <<"/","t">>

\* A cache directory named by the model id as it is.
sanitized_model_id_raw(model_id) == model_id

\* model_id.chars().map(|c| if c.is_alphanumeric() { c } else { '_' })
sanitized_model_id(model_id) ==
    [i \in 1..Len(model_id) |->
        IF is_alphanumeric(model_id[i]) THEN model_id[i] ELSE "_"]

\* <cache_dir>/tokenizers/<sanitized_model_id>/tokenizer.json
CachePath(model_id) ==
    join(join(join(cache_dir, TokenizersDir), sanitized_model_id(model_id)),
         TokenizerJson)

\* url::Url::parse(file_tok).to_file_path() on Unix: a file URL names a path
\* only when its host part is empty, that is, when "file://" is followed by "/".
FileUrlToPath(file_tok) ==
    LET rest == SubSeq(file_tok, Len(FilePrefix) + 1, Len(file_tok))
    IN  IF Len(rest) > 0 /\ rest[1] = Sep
        THEN [ok |-> TRUE, path |-> rest]
        ELSE [ok |-> FALSE, path |-> <<>>]

\* files_correction::canonical_path on a path that is already canonical.
canonical_path(p) == p

\* A match without the arm for the "fake" marker: the marker is taken for a
\* local path.
tokenizer_source_no_fake(tok) ==
    IF Len(tok) = 0 THEN [kind |-> "empty", path |-> <<>>, url |-> <<>>]
    ELSE [kind |-> "local", path |-> canonical_path(canonical_path(tok)),
          url |-> <<>>]

\* The match on model_rec.tokenizer: what the descriptor resolves to.
\*   kind "empty"   : return Err(empty tokenizer)
\*   kind "fake"    : return Ok(None)
\*   kind "remote"  : (PathBuf::new(), url)
\*   kind "local"   : (path, "")
\*   kind "bad_url" : return Err(Invalid path URL)
tokenizer_source(tok) ==
    IF Len(tok) = 0 THEN [kind |-> "empty", path |-> <<>>, url |-> <<>>]
    ELSE IF StartsWith(tok, FakePrefix)
         THEN [kind |-> "fake", path |-> <<>>, url |-> <<>>]
    ELSE IF StartsWith(tok, HfPrefix)
         THEN [kind |-> "remote", path |-> <<>>,
               url |-> Replace(hf_tokenizer_template, HfModelVar,
                               SubSeq(tok, Len(HfPrefix) + 1, Len(tok)))]
    ELSE IF StartsWith(tok, HttpPrefix) \/ StartsWith(tok, HttpsPrefix)
         THEN [kind |-> "remote", path |-> <<>>, url |-> tok]
    ELSE IF StartsWith(tok, FilePrefix)
         THEN IF FileUrlToPath(tok).ok
              THEN [kind |-> "local",
                    path |-> canonical_path(FileUrlToPath(tok).path),
                    url |-> <<>>]
              ELSE [kind |-> "bad_url", path |-> <<>>, url |-> <<>>]
    ELSE [kind |-> "local", path |-> canonical_path(canonical_path(tok)),
          url |-> <<>>]

Source(r) == tokenizer_source(ModelRecords[r].tokenizer)

(***************************************************************************)
(* The filesystem: a function from paths to what is there.                 *)
(*   "none"    nothing at the path                                         *)
(*   "dir"     a directory                                                 *)
(*   "tok"     a complete vocabulary-table JSON file (Tokenizer::from_file *)
(*             accepts it)                                                 *)
(*   "garbage" a complete file that is not JSON (an HTML error page)       *)
(*   "trunc"   a file some writer has opened and not finished writing      *)
(*   "bpe"     a byte-pair table file (opaque bytes)                       *)
(*   "cfg"     a tokenizer_config.json without a pat_str                   *)
(*   "cfg_o200k" a tokenizer_config.json whose pat_str contains "o200k"    *)
(***************************************************************************)
Contents == {"none", "dir", "tok", "garbage", "trunc", "bpe", "cfg", "cfg_o200k"}

\* The one cache file the remote records share ("a/b" and "a_b" sanitize alike).
Target == CachePath(NormId("hf"))

LocalFiles ==
    [p \in {<<"/","d">>, join(<<"/","d">>, TiktokenModel),
            <<"/","g">>, join(<<"/","g">>, TiktokenModel),
            join(<<"/","g">>, TokenizerConfigJson),
            <<"/","r","5","0","k">>, join(<<"/","r","5","0","k">>, TiktokenModel),
            <<"/","q">>, join(<<"/","q">>, <<"r","5","0","k",".","m","o","d","e","l">>)} |->
        IF p \in {<<"/","d">>, <<"/","g">>, <<"/","r","5","0","k">>, <<"/","q">>} THEN "dir"
        ELSE IF extension(p) = ModelExt THEN "bpe"
        ELSE "garbage"]

\* What is at path p in filesystem fsys.
At(fsys, p) == IF p \in DOMAIN fsys THEN fsys[p] ELSE "none"

exists(fsys, p) == At(fsys, p) # "none"
is_dir(fsys, p) == At(fsys, p) = "dir"
is_file(fsys, p) == At(fsys, p) \notin {"none", "dir"}

\* tokenizers::Tokenizer::from_file succeeds on a complete tokenizer JSON only.
Tokenizer_from_file(content) == content = "tok"

\* A check_json_file that accepts whatever exists: the validation the
\* short-circuit depends on, taken away.
check_json_file_exists(fsys, p) == exists(fsys, p)

\* check_json_file(path)
check_json_file(fsys, p) == Tokenizer_from_file(At(fsys, p))

(***************************************************************************)
(* The byte-pair adapter's construction (tiktoken_wrapper.rs).             *)
(***************************************************************************)
NoPatStr == <<>>

\* serde_json::from_str::<TikTokenConfig>(read_to_string(config_path)): every
\* field has a default, so any JSON object parses; what is not JSON does not.
\* The result carries the pat_str (NoPatStr for None).
ParseConfig(content) ==
    IF content = "cfg_o200k"
    THEN [ok |-> TRUE, pat_str |-> <<"o","2","0","0","k">>]
    ELSE IF content \in {"cfg", "tok"}
    THEN [ok |-> TRUE, pat_str |-> NoPatStr]
    ELSE [ok |-> FALSE, pat_str |-> NoPatStr]

\* TikTokenWrapper::determine_tokenizer_from_config: the encoding table chosen.
determine_tokenizer_from_config(pat_str, model_path) ==
    LET filename == file_name(model_path)
    IN  IF pat_str # NoPatStr /\ Contains(pat_str, <<"o","2","0","0","k">>)
        THEN "o200k_base"
        ELSE IF Contains(filename, <<"o","2","0","0","k">>)
                \/ Contains(filename, <<"g","p","t","-","4","o">>)
        THEN "o200k_base"
        ELSE IF Contains(filename, <<"p","5","0","k">>)
        THEN "p50k_base"
        ELSE IF Contains(filename, <<"r","5","0","k">>)
                \/ Contains(filename, <<"g","p","t","2">>)
        THEN "r50k_base"
        ELSE "cl100k_base"

\* The part from_directory and from_model_file share: load the side-car
\* configuration when it exists, read the table file, choose the table.
LoadTikToken(fsys, model_path, config_path) ==
    IF ~exists(fsys, model_path)
    THEN [ok |-> FALSE, variant |-> "none", table |-> "none",
          err |-> "model file not found"]
    ELSE IF exists(fsys, config_path) /\ ~ParseConfig(At(fsys, config_path)).ok
    THEN [ok |-> FALSE, variant |-> "none", table |-> "none",
          err |-> "Failed to parse tokenizer_config.json"]
    ELSE IF is_dir(fsys, model_path)
    THEN [ok |-> FALSE, variant |-> "none", table |-> "none",
          err |-> "Failed to read model file"]
    ELSE [ok |-> TRUE, variant |-> "TikToken",
          table |-> determine_tokenizer_from_config(
                        IF exists(fsys, config_path)
                        THEN ParseConfig(At(fsys, config_path)).pat_str
                        ELSE NoPatStr,
                        model_path),
          err |-> ""]

\* TikTokenWrapper::from_directory
from_directory(fsys, dir_path) ==
    LoadTikToken(fsys, join(dir_path, TiktokenModel),
                 join(dir_path, TokenizerConfigJson))

\* TikTokenWrapper::from_model_file
from_model_file(fsys, model_path) ==
    LoadTikToken(fsys, model_path, with_file_name(model_path, TokenizerConfigJson))

\* is_tiktoken_format
is_tiktoken_format(fsys, p) ==
    IF is_dir(fsys, p) THEN exists(fsys, join(p, TiktokenModel))
    ELSE IF is_file(fsys, p) THEN extension(p) = ModelExt
    ELSE FALSE

(***************************************************************************)
(* detect_and_load_tokenizer: the vocabulary-table format first, then the  *)
(* byte-pair format.  The result is the UnifiedTokenizer built (its        *)
(* variant and, for the byte-pair variant, its table) or the error.        *)
(***************************************************************************)
\* A detection that looks for tokenizer.json only in a directory it is given:
\* for a file it tries the file itself.
DetectJsonPathOwn(fsys, p) ==
    IF is_dir(fsys, p) THEN join(p, TokenizerJson) ELSE p

DetectJsonPath(fsys, p) ==
    IF is_dir(fsys, p) THEN join(p, TokenizerJson)
    ELSE IF extension(p) = JsonExt THEN p
    ELSE join(parent(p), TokenizerJson)

\* A detection that tries the byte-pair format first and the
\* vocabulary-table format after it.
detect_tiktoken_first(fsys, p) ==
    LET tokenizer_json == DetectJsonPath(fsys, p)
    IN  IF is_tiktoken_format(fsys, p)
        THEN IF is_dir(fsys, p) THEN from_directory(fsys, p)
             ELSE from_model_file(fsys, p)
        ELSE IF exists(fsys, tokenizer_json) /\ check_json_file(fsys, tokenizer_json)
        THEN [ok |-> TRUE, variant |-> "HuggingFace", table |-> "json", err |-> ""]
        ELSE [ok |-> FALSE, variant |-> "none", table |-> "none",
              err |-> "No valid tokenizer format found"]

detect_and_load_tokenizer(fsys, p) ==
    LET tokenizer_json == DetectJsonPath(fsys, p)
    IN  IF exists(fsys, tokenizer_json) /\ check_json_file(fsys, tokenizer_json)
        THEN IF Tokenizer_from_file(At(fsys, tokenizer_json))
             THEN [ok |-> TRUE, variant |-> "HuggingFace", table |-> "json",
                   err |-> ""]
             ELSE [ok |-> FALSE, variant |-> "none", table |-> "none",
                   err |-> "failed to load HuggingFace tokenizer"]
        ELSE IF is_tiktoken_format(fsys, p)
        THEN IF is_dir(fsys, p) THEN from_directory(fsys, p)
             ELSE from_model_file(fsys, p)
        ELSE [ok |-> FALSE, variant |-> "none", table |-> "none",
              err |-> "No valid tokenizer format found"]

(***************************************************************************)
(* The encoding engines, as far as the code depends on them.  Texts are    *)
(* sequences of bytes; both engines are deterministic functions of the     *)
(* text.                                                                   *)
(***************************************************************************)
\* The bytes that occur in the texts encoded here.
Alphabet == <<"a", "b", "c", "e", "h", "l", "o", "x", "H", ",", " ", "w", "r", "d", "!",
              "^", "~">>

ByteCode(ch) == CHOOSE i \in 1..Len(Alphabet) : Alphabet[i] = ch

\* The byte pairs a table holds as one token, and the rank of a token in the
\* table: the four tables split and number a text differently.
Merges(table) ==
    IF table = "cl100k_base" THEN {<<"a","b">>, <<"l","l">>, <<"^","~">>}
    ELSE IF table = "o200k_base" THEN {<<"a","b">>, <<"b","c">>, <<"l","o">>}
    ELSE IF table = "p50k_base" THEN {<<"l","l">>}
    ELSE {}

Rank(table, tok) ==
    (IF table = "cl100k_base" THEN 0
     ELSE IF table = "o200k_base" THEN 1000
     ELSE IF table = "p50k_base" THEN 2000
     ELSE 3000)
    + (IF Len(tok) = 1 THEN ByteCode(tok[1])
       ELSE 100 + 20 * ByteCode(tok[1]) + ByteCode(tok[2]))

\* The tokens CoreBPE splits a text into, as their byte strings.
RECURSIVE BpeSplit(_, _)
BpeSplit(table, text) ==
    IF Len(text) = 0 THEN <<>>
    ELSE IF Len(text) >= 2 /\ SubSeq(text, 1, 2) \in Merges(table)
    THEN <<SubSeq(text, 1, 2)>> \o BpeSplit(table, SubSeq(text, 3, Len(text)))
    ELSE <<SubSeq(text, 1, 1)>> \o BpeSplit(table, SubSeq(text, 2, Len(text)))

\* self.tokenizer.encode_ordinary(text)
encode_ordinary(table, text) ==
    [i \in 1..Len(BpeSplit(table, text)) |-> Rank(table, BpeSplit(table, text)[i])]

\* Option<TruncationParams> / Option<PaddingParams>: None, or Some with the
\* length the parameters carry (max_length; the fixed padding length).
NoParams == [set |-> FALSE, n |-> 0]
SomeParams(n) == [set |-> TRUE, n |-> n]

\* What encode returns: Ok(Encoding) with its ids, or Err.
EncOk(ids) == [ok |-> TRUE, ids |-> ids, err |-> ""]
EncErr(msg) == [ok |-> FALSE, ids |-> <<>>, err |-> msg]

\* The byte the vocabulary-table engine has no token for: encode fails on a
\* text that holds it.
Unencodable == "x"

\* tokenizers::Tokenizer::encode(text, add_special) of the vocabulary-table
\* engine, with the truncation and padding it applies natively: one id per
\* byte, the special tokens around them when asked for, cut to max_length,
\* filled up to the padding length.
hf_encode(obj, text, add_special) ==
    LET ids0 == [i \in 1..Len(text) |-> 5000 + ByteCode(text[i])]
        ids1 == IF add_special THEN <<5101>> \o ids0 \o <<5102>> ELSE ids0
        ids2 == IF obj.truncation.set /\ Len(ids1) > obj.truncation.n
                THEN SubSeq(ids1, 1, obj.truncation.n) ELSE ids1
        ids3 == IF obj.padding.set /\ Len(ids2) < obj.padding.n
                THEN ids2 \o [i \in 1..(obj.padding.n - Len(ids2)) |-> 5000] ELSE ids2
    IN  IF \E i \in 1..Len(text) : text[i] = Unencodable
        THEN EncErr("HuggingFace tokenizer error")
        ELSE EncOk(ids3)

\* A byte-pair adapter that keeps the last max_length ids.
truncate_tail(tokens, truncation) ==
    IF truncation.set
    THEN IF Len(tokens) > truncation.n
         THEN SubSeq(tokens, Len(tokens) - truncation.n + 1, Len(tokens))
         ELSE tokens
    ELSE tokens

\* TikTokenWrapper::encode_fast, "Apply truncation if configured":
\* tokens[..max_length] when tokens.len() > max_length.
truncate(tokens, truncation) ==
    IF truncation.set
    THEN IF Len(tokens) > truncation.n
         THEN SubSeq(tokens, 1, truncation.n)
         ELSE tokens
    ELSE tokens

\* TikTokenWrapper::encode_fast: the ids of the Encoding it returns.  Neither
\* add_special nor self.padding is read.
tiktoken_encode_fast(obj, text, add_special) ==
    EncOk(truncate(encode_ordinary(obj.table, text), obj.truncation))

\* The two bytes of a two-byte UTF-8 character: a byte string is valid UTF-8
\* when every lead byte is followed by its continuation byte and every
\* continuation byte follows a lead byte.
LeadByte == "^"
ContByte == "~"

\* String::from_utf8 on a token's bytes succeeds.
is_utf8(bytes) ==
    \A i \in 1..Len(bytes) :
        /\ bytes[i] = LeadByte => (i < Len(bytes) /\ bytes[i + 1] = ContByte)
        /\ bytes[i] = ContByte => (i > 1 /\ bytes[i - 1] = LeadByte)

\* The tokens of a table (single bytes and merged pairs) and the bytes of
\* the token with a given rank.
TableTokens(table) == {<<Alphabet[i]>> : i \in 1..Len(Alphabet)} \cup Merges(table)

TokenBytes(table, id) == CHOOSE tok \in TableTokens(table) : Rank(table, tok) = id

\* format!("{}", id): the decimal digits of id.
RECURSIVE DecimalString(_)
DecimalString(n) ==
    LET digit == <<"0","1","2","3","4","5","6","7","8","9">>[(n % 10) + 1]
    IN  IF n < 10 THEN <<digit>> ELSE DecimalString(n \div 10) \o <<digit>>

\* self.tokenizer.decode(vec![id]).unwrap_or_else(|_| format!("token_{}", id))
decode_or_token_id(table, id) ==
    IF is_utf8(TokenBytes(table, id))
    THEN TokenBytes(table, id)
    ELSE <<"t","o","k","e","n","_">> \o DecimalString(id)

\* tokens_str: the decoded string of every returned id.
tokens_str(table, ids) == [i \in 1..Len(ids) |-> decode_or_token_id(table, ids[i])]

\* The sum of the byte lengths of the first k strings.
RECURSIVE PrefixLen(_, _)
PrefixLen(strs, k) == IF k = 0 THEN 0 ELSE PrefixLen(strs, k - 1) + Len(strs[k])

\* Offsets that start every token at 0.
offsets_from_zero(strs) == [i \in 1..Len(strs) |-> <<0, Len(strs[i])>>]

\* "Calculate proper character offsets by accumulating token lengths": the
\* loop over tokens_str with current_offset.
accumulate_offsets(strs) ==
    [i \in 1..Len(strs) |-> <<PrefixLen(strs, i - 1), PrefixLen(strs, i - 1) + Len(strs[i])>>]

\* The tokens and offsets of the Encoding TikTokenWrapper::encode_fast
\* returns, beside its ids.
tiktoken_tokens(obj, text, add_special) ==
    tokens_str(obj.table, tiktoken_encode_fast(obj, text, add_special).ids)

tiktoken_offsets(obj, text, add_special) ==
    accumulate_offsets(tiktoken_tokens(obj, text, add_special))

\* An estimate that divides before it doubles.
estimate_tokens_halved(text) == 1 + 2 * (Len(text) \div 7)

\* fn estimate_tokens(text: &str) -> usize {  1 + text.len() * 2 / 7 }
estimate_tokens(text) == 1 + (Len(text) * 2) \div 7

(***************************************************************************)
(* State.                                                                  *)
(***************************************************************************)
NoHolder == "nobody"
NoRecord == "no_record"

VARIABLES
    pc,             \* each caller's position in cached_tokenizer
    rec,            \* the model record each caller resolves (a RecordNames name)
    result,         \* what each caller's last call returned
    unified,        \* each caller's unified_tokenizer / result locals
    f,              \* each caller's locals of try_download_tokenizer_file_and_open
    last_fetch,     \* the locals of the latest Fetcher call when it returned
    stats,          \* what each caller's current call has done so far
    lock,           \* holder of GlobalContext.tokenizer_download_lock
    tokenizer_map,  \* GlobalContext.tokenizer_map, keyed by normalized model id
    fs,             \* the filesystem
    nextAddr,       \* next address Arc::new allocates
    calls,          \* cached_tokenizer calls started so far
    scenario,       \* what this behaviour does (a member of Scenarios)
    faults,         \* failures the environment has injected so far
    fetched,        \* the paths for which a Fetcher call has returned Ok
    heap,           \* the tokenizers behind an Arc that callers configure
    held,           \* the UnifiedTokenizer value each holder has
    out,            \* what the latest adapter operation returned
    overlapped      \* whether a call began while another was under way

vars == <<pc, rec, result, unified, f, last_fetch, stats, lock, tokenizer_map, fs, nextAddr,
          calls, scenario, faults, fetched, overlapped, heap, held, out>>


\* Values of Option<Option<UnifiedTokenizer>> read from the map, and of the
\* UnifiedTokenizer enum: its variant and the address of the engine its
\* inner Arc points to.
Absent == [kind |-> "absent", variant |-> "none", table |-> "none", engine |-> 0]
NoneEntry == [kind |-> "None", variant |-> "none", table |-> "none", engine |-> 0]
SomeEntry(variant, table, engine) ==
    [kind |-> "Some", variant |-> variant, table |-> table, engine |-> engine]

\* Values of Result<Option<Arc<UnifiedTokenizer>>, String>; handle is the
\* address of the Arc<UnifiedTokenizer> returned.
NoResult == [kind |-> "none", handle |-> 0, tok |-> Absent, msg |-> ""]
OkNone == [kind |-> "OkNone", handle |-> 0, tok |-> NoneEntry, msg |-> ""]
OkSome(handle, tok) == [kind |-> "OkSome", handle |-> handle, tok |-> tok, msg |-> ""]
Err(msg) == [kind |-> "Err", handle |-> 0, tok |-> Absent, msg |-> msg]
Abandoned == [kind |-> "Abandoned", handle |-> 0, tok |-> Absent, msg |-> ""]

\* The retry loop's attempt budget: for i in 0..15
MaxAttempts == 15

\* Locals of one try_download_tokenizer_file_and_open call, with what the
\* call has done.  They are dropped when the call returns; last_fetch keeps
\* those of the latest call that returned until the next call is entered.
\*   entry      what was at the target path when the call began
\*   tmp        what is at tmp_path (a fresh Uuid per call)
\*   attempts   download_tokenizer_file calls made
\*   delays     200ms sleeps made
\*   downloads  response bodies received in full
\*   wrote      whether the call has written to the target path
\*   requested  whether any attempt sent an HTTP request
\*   issued     whether the latest attempt sent an HTTP request
\*   reused     whether the latest attempt found a file at tmp_path and sent
\*              no request for that reason
\*   all_issued whether every attempt so far sent an HTTP request
\*   all_non2xx whether every attempt so far ended on a non-2xx response
\*   after_ok   whether an earlier Fetcher call had returned Ok for the same
\*              target path when this one began
\*   outcome    "none" (not called), "running", "short" (short-circuit),
\*              "ok" (relocated), "err" (budget exhausted)
FetchIdle ==
    [i |-> 0, tmp |-> "none", last_error |-> "", entry |-> "none",
     attempts |-> 0, delays |-> 0, downloads |-> 0, wrote |-> FALSE,
     requested |-> FALSE, issued |-> FALSE, reused |-> FALSE,
     all_issued |-> TRUE, all_non2xx |-> TRUE, outcome |-> "none", caller |-> NoHolder,
     after_ok |-> FALSE]

\* What a call has done: whether the map answered it, how often it entered
\* the Fetcher, ran detection and built a tokenizer, how many response
\* bodies its Fetcher call had received when it returned Ok.
NoStats == [hit |-> FALSE, fetcher_calls |-> 0, downloads |-> 0, detects |-> 0,
            builds |-> 0]

\* Who can hold a UnifiedTokenizer value: the memo (inside the Arc the map
\* stores) and a caller that cloned it out of the handle it was given.
Holders == {"memo", "caller"}

\* A UnifiedTokenizer value: its variant and the address (index in heap) of
\* the tokenizer its inner Arc points to.  NoValue: the holder has none.
NoValue == [variant |-> "none", inner |-> 0]

\* What an adapter operation returned; NoOut before the first one.
NoRes == [ok |-> FALSE, variant |-> "none", table |-> "none", err |-> "",
          ids |-> <<>>, tokens |-> <<>>, offsets |-> <<>>, count |-> 0, inner |-> 0]
NoOut == [op |-> "none", holder |-> NoHolder, path |-> <<>>, text |-> <<>>,
          add_special |-> FALSE, params |-> NoParams, res |-> NoRes]

Init ==
    /\ pc = [c \in Callers |-> "idle"]
    /\ rec = [c \in Callers |-> NoRecord]
    /\ result = [c \in Callers |-> NoResult]
    /\ unified = [c \in Callers |-> Absent]
    /\ f = [c \in Callers |-> FetchIdle]
    /\ last_fetch = FetchIdle
    /\ stats = [c \in Callers |-> NoStats]
    /\ lock = NoHolder
    /\ tokenizer_map = [n \in NormIds |-> Absent]
    \* The cache directory outlives the process: the target may hold a valid
    \* file, an invalid one (also a partial one a crashed process left), or
    \* nothing.
    /\ \E t \in {"none", "garbage", "tok"} :
          fs = [p \in DOMAIN LocalFiles \cup {Target} |->
                   IF p = Target THEN t ELSE LocalFiles[p]]
    /\ nextAddr = 1
    /\ calls = 0
    /\ scenario \in Scenarios
    /\ faults = 0
    /\ fetched = {}
    /\ overlapped = FALSE
    /\ heap = <<>>
    /\ held = [h \in Holders |-> NoValue]
    /\ out = NoOut

\* &model_rec.tokenizer
descriptor(c) == ModelRecords[rec[c]].tokenizer

\* let model_id = strip_model_from_finetune(&model_rec.id)
model_id(c) == NormId(rec[c])

\* tok_file_path after the match and the cache-path rule.
tok_file_path(c) ==
    IF Source(rec[c]).kind = "remote" THEN CachePath(model_id(c))
    ELSE Source(rec[c]).path

\* A map lookup that never finds an entry: every call takes the miss path
\* and inserts again.
MemoGetMiss(map, id) == Absent

\* tokenizer_map.get(&model_id).cloned()
MemoGet(map, id) == map[id]

\* A call that keeps the read guard it took to clone the lock handle while it
\* waits for the lock.
GuardHeldWhileWaiting(label) == IF label = "wait_lock" THEN "read" ELSE "none"

\* The guard on global_context a call holds while it is suspended at label.
\* Every guard the code takes is a temporary of one statement or of the
\* block that reads the context, and is dropped before the next .await.
GuardHeld(label) == "none"

\* A lock that never makes anyone wait: cached_tokenizer without its critical
\* section.
LockAlwaysFree(l) == TRUE

\* tokenizer_download_lock.lock().await can complete
LockFree(l) == l = NoHolder

(***************************************************************************)
(* The exits of cached_tokenizer.  Each drops _tokenizer_download_locked.  *)
(***************************************************************************)
\* An error exit that remembers the failure as a None entry for the id.
ReturnErrCaching(c, msg) ==
    /\ result' = [result EXCEPT ![c] = Err(msg)]
    /\ pc' = [pc EXCEPT ![c] = "idle"]
    /\ lock' = NoHolder
    /\ tokenizer_map' = [tokenizer_map EXCEPT ![NormId(rec[c])] = NoneEntry]

\* return Err(..) and every `?`: the map is left alone.
ReturnErr(c, msg) ==
    /\ result' = [result EXCEPT ![c] = Err(msg)]
    /\ pc' = [pc EXCEPT ![c] = "idle"]
    /\ lock' = NoHolder
    /\ tokenizer_map' = tokenizer_map

\* return Ok(..) on the paths that do not insert.
ReturnOk(c, value) ==
    /\ result' = [result EXCEPT ![c] = value]
    /\ pc' = [pc EXCEPT ![c] = "idle"]
    /\ lock' = NoHolder
    /\ tokenizer_map' = tokenizer_map

(***************************************************************************)
(* cached_tokenizer, step by step.  A step ends at a suspension point      *)
(* (.await) of the code.                                                   *)
(***************************************************************************)
\* A caller begins cached_tokenizer(gcx, model_rec): it normalizes the id,
\* clones the lock handle and waits for the lock.
Call(c, r) ==
    /\ pc[c] = "idle"
    /\ r \in scenario.records
    /\ calls < (IF scenario.single THEN 1 ELSE MaxCalls)
    /\ calls' = calls + 1
    /\ pc' = [pc EXCEPT ![c] = "wait_lock"]
    /\ rec' = [rec EXCEPT ![c] = r]
    /\ result' = [result EXCEPT ![c] = NoResult]
    /\ unified' = [unified EXCEPT ![c] = Absent]
    /\ f' = [f EXCEPT ![c] = FetchIdle]
    /\ stats' = [stats EXCEPT ![c] = NoStats]
    /\ overlapped' = (overlapped \/ \E d \in Callers \ {c} : pc[d] # "idle")
    /\ UNCHANGED <<last_fetch, lock, tokenizer_map, fs, nextAddr, scenario, faults, fetched, heap, held, out>>

\* let _tokenizer_download_locked = tokenizer_download_lock.lock().await
AcquireLock(c) ==
    /\ pc[c] = "wait_lock"
    /\ LockFree(lock)
    /\ lock' = c
    /\ pc' = [pc EXCEPT ![c] = "locked"]
    /\ UNCHANGED <<rec, result, unified, f, last_fetch, stats, tokenizer_map, fs, nextAddr, calls, scenario, faults, fetched, overlapped, heap, held, out>>

\* A hit that copies the engine instead of cloning the Arc that holds it.
HitResultDeepCopy(entry, addr) ==
    IF entry.kind = "Some" THEN OkSome(addr, [entry EXCEPT !.engine = addr]) ELSE OkNone

\* Ok(tokenizer.map(|t| Arc::new(t))): a new Arc around a clone of the entry.
HitResult(entry, addr) ==
    IF entry.kind = "Some" THEN OkSome(addr, entry) ELSE OkNone

\* if let Some(tokenizer) = tokenizer_in_gcx { return ... }
MemoHit(c) ==
    /\ pc[c] = "locked"
    /\ MemoGet(tokenizer_map, model_id(c)).kind # "absent"
    /\ stats' = [stats EXCEPT ![c].hit = TRUE]
    /\ nextAddr' = IF MemoGet(tokenizer_map, model_id(c)).kind = "Some"
                   THEN nextAddr + 1 ELSE nextAddr
    /\ ReturnOk(c, HitResult(MemoGet(tokenizer_map, model_id(c)), nextAddr))
    /\ UNCHANGED <<rec, unified, f, last_fetch, fs, calls, scenario, faults, fetched, overlapped, heap, held, out>>

\* An empty descriptor answered with a silent Ok(None).
EmptyDescriptorSilent(c) ==
    /\ pc[c] = "locked"
    /\ MemoGet(tokenizer_map, model_id(c)).kind = "absent"
    /\ Source(rec[c]).kind = "empty"
    /\ ReturnOk(c, OkNone)
    /\ UNCHANGED <<rec, unified, f, last_fetch, stats, fs, nextAddr, calls, scenario, faults, fetched, overlapped, heap, held, out>>

\* empty_tok if empty_tok.is_empty() => return Err(..)
EmptyDescriptor(c) ==
    /\ pc[c] = "locked"
    /\ MemoGet(tokenizer_map, model_id(c)).kind = "absent"
    /\ Source(rec[c]).kind = "empty"
    /\ ReturnErr(c, "failed to load tokenizer: empty tokenizer")
    /\ UNCHANGED <<rec, unified, f, last_fetch, stats, fs, nextAddr, calls, scenario, faults, fetched, overlapped, heap, held, out>>

\* fake_tok if fake_tok.starts_with("fake") => return Ok(None)
FakeDescriptor(c) ==
    /\ pc[c] = "locked"
    /\ MemoGet(tokenizer_map, model_id(c)).kind = "absent"
    /\ Source(rec[c]).kind = "fake"
    /\ ReturnOk(c, OkNone)
    /\ UNCHANGED <<rec, unified, f, last_fetch, stats, fs, nextAddr, calls, scenario, faults, fetched, overlapped, heap, held, out>>

\* url::Url::parse(file_tok)...map_err_with_prefix("Invalid path URL")?
InvalidFileUrl(c) ==
    /\ pc[c] = "locked"
    /\ MemoGet(tokenizer_map, model_id(c)).kind = "absent"
    /\ Source(rec[c]).kind = "bad_url"
    /\ ReturnErr(c, "Invalid path URL")
    /\ UNCHANGED <<rec, unified, f, last_fetch, stats, fs, nextAddr, calls, scenario, faults, fetched, overlapped, heap, held, out>>

\* A local path: nothing is fetched, detection runs on the path itself.
LocalSource(c) ==
    /\ pc[c] = "locked"
    /\ MemoGet(tokenizer_map, model_id(c)).kind = "absent"
    /\ Source(rec[c]).kind = "local"
    /\ pc' = [pc EXCEPT ![c] = "detect"]
    /\ UNCHANGED <<rec, result, unified, f, last_fetch, stats, lock, tokenizer_map, fs, nextAddr, calls, scenario, faults, fetched, overlapped, heap, held, out>>

\* A Fetcher without its short-circuit.
ShortCircuitNever(fsys, p) == FALSE

\* if path.exists() && check_json_file(path) { return Ok(()) }
ShortCircuit(fsys, p) == exists(fsys, p) /\ check_json_file(fsys, p)

\* A remote source: try_download_tokenizer_file_and_open is entered with the
\* cache path, and either returns at once or sets up its retry loop.
FetcherEnter(c) ==
    /\ pc[c] = "locked"
    /\ MemoGet(tokenizer_map, model_id(c)).kind = "absent"
    /\ Source(rec[c]).kind = "remote"
    /\ stats' = [stats EXCEPT ![c].fetcher_calls = @ + 1]
    /\ IF ShortCircuit(fs, tok_file_path(c))
       THEN /\ last_fetch' = [FetchIdle EXCEPT !.entry = At(fs, tok_file_path(c)),
                                               !.outcome = "short", !.caller = c,
                                               !.after_ok = (tok_file_path(c) \in fetched)]
            /\ f' = f
            /\ fetched' = fetched \cup {tok_file_path(c)}
            /\ pc' = [pc EXCEPT ![c] = "detect"]
       ELSE /\ last_fetch' = FetchIdle
            /\ f' = [f EXCEPT ![c] = [FetchIdle EXCEPT
                        !.entry = At(fs, tok_file_path(c)), !.outcome = "running",
                        !.caller = c,
                        !.after_ok = (tok_file_path(c) \in fetched)]]
            /\ fetched' = fetched
            /\ pc' = [pc EXCEPT ![c] = "attempt"]
    /\ UNCHANGED <<rec, result, unified, lock, tokenizer_map, fs, nextAddr, calls, scenario, faults, overlapped, heap, held, out>>

(***************************************************************************)
(* The Fetcher's retry loop.                                               *)
(***************************************************************************)
\* A loop that sleeps before its first attempt too.
DelayAlways(i) == TRUE

\* if i != 0 { tokio::time::sleep(Duration::from_millis(200)).await; }
NeedsDelay(i) == i # 0

\* for i in 0..15: whether the loop runs again after attempt index i failed.
LoopContinues(i) == i + 1 < MaxAttempts

\* What one download_tokenizer_file(.., tmp_path) call can do, given what is
\* at tmp_path.  req: an HTTP request was sent; body: a response body was
\* received in full; non2xx: it ended on error_for_status.
\*   create_dir_all fails   -> "failed to create parent dir", no request
\*   to.exists()            -> Ok(()) with no request
\*   send fails             -> "failed to get response", nothing written
\*   non-2xx status         -> "failed to get response", nothing written
\*   open fails             -> "failed to open file", nothing written
\*   res.bytes() fails      -> "failed to fetch bytes", tmp created and empty
\*   write_all fails        -> "failed to write to file", tmp partly written
\*   flush fails            -> "failed to flush file", tmp partly written
\*   success                -> tmp holds the body (a tokenizer, or whatever
\*                             else the server sent with a 2xx status)
DownloadOutcomes(tmp) ==
    {[ok |-> FALSE, tmp |-> tmp, req |-> 0, body |-> 0, non2xx |-> FALSE,
      err |-> "failed to download tokenizer: failed to create parent dir"]}
    \cup
    (IF tmp # "none"
    THEN {[ok |-> TRUE, tmp |-> tmp, err |-> "", req |-> 0, body |-> 0, non2xx |-> FALSE]}
    ELSE {[ok |-> FALSE, tmp |-> "none", req |-> 1, body |-> 0, non2xx |-> FALSE,
           err |-> "failed to download tokenizer: failed to get response: send"],
          [ok |-> FALSE, tmp |-> "none", req |-> 1, body |-> 0, non2xx |-> TRUE,
           err |-> "failed to download tokenizer: failed to get response: status"],
          [ok |-> FALSE, tmp |-> "none", req |-> 1, body |-> 0, non2xx |-> FALSE,
           err |-> "failed to download tokenizer: failed to open file"],
          [ok |-> FALSE, tmp |-> "trunc", req |-> 1, body |-> 0, non2xx |-> FALSE,
           err |-> "failed to download tokenizer: failed to fetch bytes"],
          [ok |-> FALSE, tmp |-> "trunc", req |-> 1, body |-> 1, non2xx |-> FALSE,
           err |-> "failed to download tokenizer: failed to write to file"],
          [ok |-> FALSE, tmp |-> "trunc", req |-> 1, body |-> 1, non2xx |-> FALSE,
           err |-> "failed to download tokenizer: failed to flush file"]}
         \cup
         {[ok |-> TRUE, tmp |-> b, req |-> 1, body |-> 1, non2xx |-> FALSE,
           err |-> ""] : b \in {"tok", "garbage"}})

\* The locals after the sleep and the download of one attempt.
AfterDownload(cur, o) ==
    [cur EXCEPT !.tmp = o.tmp,
                !.attempts = @ + 1,
                !.requested = @ \/ (o.req = 1),
                !.all_issued = @ /\ (o.req = 1),
                !.downloads = @ + o.body,
                !.delays = IF NeedsDelay(cur.i) THEN @ + 1 ELSE @,
                !.issued = (o.req = 1),
                !.reused = (o.ok /\ o.req = 0),
                !.all_non2xx = @ /\ o.non2xx]

\* What the rest of the loop body does after a download that returned Ok,
\* env being what the filesystem lets happen:
\*   "mkdir_fails"  create_dir_all(parent) fails
\*   "copy_refused" tokio::fs::copy fails before it opens the target
\*   "fine"         neither
\* The result is the error recorded, or "" when the copy into the target began.
AfterDownloadError(tmp, env) ==
    IF env = "mkdir_fails" THEN "failed to create parent dir"
    ELSE IF ~Tokenizer_from_file(tmp)
    THEN "failed to download tokenizer: file is not a tokenizer"
    ELSE IF env = "copy_refused" THEN "failed to copy tokenizer file"
    ELSE ""

\* An attempt failed with err: `continue`, or Err(last_error) after the loop,
\* which cached_tokenizer returns with `?`.
AttemptFailed(c, cur, err) ==
    IF LoopContinues(cur.i)
    THEN /\ f' = [f EXCEPT ![c] = [cur EXCEPT !.last_error = err, !.i = @ + 1]]
         /\ pc' = [pc EXCEPT ![c] = "attempt"]
         /\ UNCHANGED <<last_fetch, result, lock, tokenizer_map>>
    ELSE /\ last_fetch' = [cur EXCEPT !.last_error = err, !.i = @ + 1, !.outcome = "err"]
         /\ f' = [f EXCEPT ![c] = FetchIdle]
         /\ ReturnErr(c, err)

\* Whether the environment may inject one more failure.
MayFail == scenario.single \/ faults < MaxFaults

\* The failures the environment injects in an attempt with download outcome
\* o and filesystem behaviour env: a request that fails, a 2xx body that is
\* no tokenizer, a filesystem operation that fails.
FaultsOf(o, env) ==
    (IF ~o.ok \/ (o.req = 1 /\ o.tmp # "tok") THEN 1 ELSE 0)
    + (IF o.ok /\ env # "fine" THEN 1 ELSE 0)

Counted(n) == IF scenario.single THEN faults ELSE faults + n

\* One iteration of the loop up to the point where tokio::fs::copy has
\* opened (and truncated) the target.
Attempt(c) ==
    /\ pc[c] = "attempt"
    /\ \E o \in DownloadOutcomes(f[c].tmp), env \in {"mkdir_fails", "copy_refused", "fine"} :
          LET cur == AfterDownload(f[c], o)
              err == IF o.ok THEN AfterDownloadError(o.tmp, env) ELSE o.err
          IN  /\ scenario.single \/ faults + FaultsOf(o, env) <= MaxFaults
              /\ faults' = Counted(FaultsOf(o, env))
              /\ IF err # ""
                 THEN /\ AttemptFailed(c, cur, err)
                      /\ fs' = fs
                 ELSE /\ f' = [f EXCEPT ![c] = [cur EXCEPT !.wrote = TRUE]]
                      /\ fs' = [fs EXCEPT ![tok_file_path(c)] = "trunc"]
                      /\ pc' = [pc EXCEPT ![c] = "copying"]
                      /\ UNCHANGED <<last_fetch, result, lock, tokenizer_map>>
    /\ UNCHANGED <<rec, unified, stats, nextAddr, calls, scenario, fetched, overlapped, heap, held, out>>

\* tokio::fs::copy(tmp_path, path) fails part-way.
CopyFails(c) ==
    /\ pc[c] = "copying"
    /\ MayFail
    /\ faults' = Counted(1)
    /\ AttemptFailed(c, f[c], "failed to copy tokenizer file")
    /\ UNCHANGED <<rec, unified, stats, fs, nextAddr, calls, scenario, fetched, overlapped, heap, held, out>>

\* tokio::fs::copy(tmp_path, path) finishes: the target holds the whole file
\* and the Fetcher returns Ok(()).
CopyEnd(c) ==
    /\ pc[c] = "copying"
    /\ fs' = [fs EXCEPT ![tok_file_path(c)] = f[c].tmp]
    /\ last_fetch' = [f[c] EXCEPT !.outcome = "ok"]
    /\ f' = [f EXCEPT ![c] = FetchIdle]
    /\ stats' = [stats EXCEPT ![c].downloads = f[c].downloads]
    /\ fetched' = fetched \cup {tok_file_path(c)}
    /\ pc' = [pc EXCEPT ![c] = "detect"]
    /\ UNCHANGED <<rec, result, unified, lock, tokenizer_map, nextAddr, calls, scenario, faults, overlapped, heap, held, out>>

(***************************************************************************)
(* Detection, memoization, return.                                         *)
(***************************************************************************)
\* let unified_tokenizer = detect_and_load_tokenizer(&tok_file_path)?;
\* let result = Some(Arc::new(unified_tokenizer.clone()));
\* The engine's Arc is allocated in detect_and_load_tokenizer; the call then
\* waits for global_context.write().
Detect(c) ==
    /\ pc[c] = "detect"
    /\ stats' = [stats EXCEPT ![c].detects = @ + 1,
                              ![c].builds = IF detect_and_load_tokenizer(fs, tok_file_path(c)).ok
                                            THEN @ + 1 ELSE @]
    /\ IF detect_and_load_tokenizer(fs, tok_file_path(c)).ok
       THEN /\ unified' = [unified EXCEPT ![c] =
                  SomeEntry(detect_and_load_tokenizer(fs, tok_file_path(c)).variant,
                            detect_and_load_tokenizer(fs, tok_file_path(c)).table,
                            nextAddr)]
            /\ nextAddr' = nextAddr + 1
            /\ pc' = [pc EXCEPT ![c] = "insert"]
            /\ UNCHANGED <<result, lock, tokenizer_map>>
       ELSE /\ ReturnErr(c, detect_and_load_tokenizer(fs, tok_file_path(c)).err)
            /\ UNCHANGED <<unified, nextAddr>>
    /\ UNCHANGED <<rec, f, last_fetch, fs, calls, scenario, faults, fetched, overlapped, heap, held, out>>

\* An insert that stores nothing.
MemoInsertDropped(map, id, tok) == map

\* tokenizer_map.insert(model_id, Some(unified_tokenizer))
MemoInsert(map, id, tok) == [map EXCEPT ![id] = tok]

\* global_context.write().await.tokenizer_map.insert(..); Ok(result)
Insert(c) ==
    /\ pc[c] = "insert"
    \* write() is granted when no guard is out
    /\ \A d \in Callers \ {c} : GuardHeld(pc[d]) = "none"
    /\ tokenizer_map' = MemoInsert(tokenizer_map, model_id(c), unified[c])
    /\ result' = [result EXCEPT ![c] = OkSome(nextAddr, unified[c])]
    /\ nextAddr' = nextAddr + 1
    /\ pc' = [pc EXCEPT ![c] = "idle"]
    /\ lock' = NoHolder
    /\ UNCHANGED <<rec, unified, f, last_fetch, stats, fs, calls, scenario, faults, fetched, overlapped, heap, held, out>>

\* The caller drops the future at a suspension point: its locals are dropped,
\* the lock guard among them.
Abandon(c) ==
    /\ pc[c] \in {"wait_lock", "locked", "attempt", "copying", "insert"}
    /\ pc' = [pc EXCEPT ![c] = "idle"]
    /\ result' = [result EXCEPT ![c] = Abandoned]
    /\ f' = [f EXCEPT ![c] = FetchIdle]
    /\ unified' = [unified EXCEPT ![c] = Absent]
    /\ lock' = IF pc[c] = "wait_lock" THEN lock ELSE NoHolder
    /\ UNCHANGED <<rec, last_fetch, stats, tokenizer_map, fs, nextAddr, calls, scenario, faults, fetched, overlapped, heap, held, out>>

Next ==
    \/ \E c \in Callers, r \in RecordNames : Call(c, r)
    \/ \E c \in Callers : AcquireLock(c)
    \/ \E c \in Callers : MemoHit(c)
    \/ \E c \in Callers : EmptyDescriptor(c)
    \/ \E c \in Callers : FakeDescriptor(c)
    \/ \E c \in Callers : InvalidFileUrl(c)
    \/ \E c \in Callers : LocalSource(c)
    \/ \E c \in Callers : FetcherEnter(c)
    \/ \E c \in Callers : Attempt(c)
    \/ \E c \in Callers : CopyFails(c)
    \/ \E c \in Callers : CopyEnd(c)
    \/ \E c \in Callers : Detect(c)
    \/ \E c \in Callers : Insert(c)
    \/ \E c \in Callers : Abandon(c)

Spec == Init /\ [][Next]_vars

\* The scheduling the runtime gives: a call that can take its next step takes
\* it (requests, file operations and sleeps end), and the mutex serves its
\* waiters in turn.  Nothing makes a caller call, drop its future, or the
\* environment fail.  Proceed(c) is the next step of a call that holds the
\* lock.
Proceed(c) ==
    \/ MemoHit(c)
    \/ EmptyDescriptor(c)
    \/ FakeDescriptor(c)
    \/ InvalidFileUrl(c)
    \/ LocalSource(c)
    \/ FetcherEnter(c)
    \/ Attempt(c)
    \/ CopyEnd(c)
    \/ Detect(c)
    \/ Insert(c)

\* ENABLED <<Proceed(c)>>_vars, written out: a call that holds the lock has a
\* next step except when it waits for global_context.write() and a guard is
\* out.
ProceedEnabled(c) ==
    \/ pc[c] \in {"locked", "attempt", "copying", "detect"}
    \/ pc[c] = "insert" /\ \A d \in Callers \ {c} : GuardHeld(pc[d]) = "none"

\* SF on the lock, and WF_vars(Proceed(c)) with its ENABLED written out.
Fairness ==
    \A c \in Callers :
        /\ SF_vars(AcquireLock(c))
        /\ ([]<>(~ProceedEnabled(c)) \/ []<><<Proceed(c)>>_vars)

LiveSpec == Spec /\ Fairness

(***************************************************************************)
(* The adapter: format detection applied to a path, and the operations of  *)
(* UnifiedTokenizer on the values the memo and a caller hold.              *)
(***************************************************************************)
\* Longest max_length a caller configures.
MaxLength == 2

\* Tokenizers allocated in one behaviour (one loaded, the rest configured).
MaxObjects == 2

TDir == <<"/","t">>
R50kModelName == <<"r","5","0","k",".","m","o","d","e","l">>

\* The filesystems detection is applied to: a directory that may hold a
\* tokenizer.json (valid or not), a tiktoken.model, a tokenizer_config.json
\* (parsing or not) and a file named r50k.model of arbitrary content.
DetectFamily ==
    { [p \in {TDir, join(TDir, TokenizerJson), join(TDir, TiktokenModel),
              join(TDir, TokenizerConfigJson), join(TDir, R50kModelName)} |->
          IF p = TDir THEN "dir"
          ELSE IF p = join(TDir, TokenizerJson) THEN j
          ELSE IF p = join(TDir, TiktokenModel) THEN m
          ELSE IF p = join(TDir, TokenizerConfigJson) THEN g
          ELSE r] :
      j \in {"none", "tok", "garbage"}, m \in {"none", "bpe"},
      g \in {"none", "cfg", "cfg_o200k", "garbage"}, r \in {"none", "bpe", "garbage"} }

\* The filesystems tokenizers are loaded from: one where the directory holds
\* a valid tokenizer.json beside the byte-pair files, one where it holds the
\* byte-pair files only.
LoadFamily ==
    { fsys \in DetectFamily :
        /\ fsys[join(TDir, TokenizerJson)] \in {"none", "tok"}
        /\ fsys[join(TDir, TiktokenModel)] = "bpe"
        /\ fsys[join(TDir, TokenizerConfigJson)] = "none"
        /\ fsys[join(TDir, R50kModelName)] = "bpe" }

\* The paths detection is applied to: the directory, files in it, two paths
\* that do not exist in it (one ending in .json), and a path whose parent does
\* not exist either.
ProbePaths ==
    {TDir, join(TDir, R50kModelName), join(TDir, TiktokenModel),
     join(TDir, TokenizerJson), join(TDir, <<"m">>),
     join(TDir, <<"m",".","j","s","o","n">>), join(<<"/","n">>, <<"m">>)}

\* The paths a tokenizer is loaded from.
LoadPaths == {TDir, join(TDir, R50kModelName)}

\* The texts encoded and counted ("x" is Unencodable).
Texts == {<<>>, <<"a","b">>, <<"h","e","l","l","o">>, <<"x","a">>, <<"a","^","~">>}

\* Option<TruncationParams> and Option<PaddingParams> values a caller passes.
TruncationValues == {NoParams} \cup {SomeParams(m) : m \in 0..MaxLength}
PaddingValues == {NoParams, SomeParams(MaxLength + 1)}

\* UnifiedTokenizer::encode_fast: dispatch on the variant.
encode_fast(hp, value, text, add_special) ==
    IF value.variant = "HuggingFace"
    THEN hf_encode(hp[value.inner], text, add_special)
    ELSE tiktoken_encode_fast(hp[value.inner], text, add_special)

\* A with_truncation that sets the parameters on the tokenizer behind the
\* Arc it was given, and returns the same instance.
with_truncation_in_place(hp, value, truncation) ==
    [heap |-> [hp EXCEPT ![value.inner].truncation = truncation], value |-> value]

\* UnifiedTokenizer::with_truncation(self, truncation): (*tokenizer).clone(),
\* with_truncation on the clone, Arc::new.  The heap after it and the value
\* it returns.
with_truncation(hp, value, truncation) ==
    [heap |-> Append(hp, [hp[value.inner] EXCEPT !.truncation = truncation]),
     value |-> [variant |-> value.variant, inner |-> Len(hp) + 1]]

\* UnifiedTokenizer::with_padding(self, padding)
with_padding(hp, value, padding) ==
    [heap |-> Append(hp, [hp[value.inner] EXCEPT !.padding = padding]),
     value |-> [variant |-> value.variant, inner |-> Len(hp) + 1]]

\* count_text_tokens(tokenizer, text): Ok(tokens.len()), Err("Encoding
\* error"), or Ok(estimate) for None (NoValue).
count_text_tokens(hp, tokenizer, text) ==
    IF tokenizer # NoValue
    THEN IF encode_fast(hp, tokenizer, text, FALSE).ok
         THEN [ok |-> TRUE, n |-> Len(encode_fast(hp, tokenizer, text, FALSE).ids)]
         ELSE [ok |-> FALSE, n |-> 0]
    ELSE [ok |-> TRUE, n |-> estimate_tokens(text)]

\* count_text_tokens_with_fallback(tokenizer, text)
count_text_tokens_with_fallback(hp, tokenizer, text) ==
    IF count_text_tokens(hp, tokenizer, text).ok
    THEN count_text_tokens(hp, tokenizer, text).n
    ELSE estimate_tokens(text)

resolver_vars == <<pc, rec, result, unified, f, last_fetch, stats, lock, tokenizer_map,
                   nextAddr, calls, scenario, faults, fetched, overlapped>>

\* No cached_tokenizer call is under way or has been made.
ResolverIdle ==
    /\ pc = [c \in Callers |-> "idle"]
    /\ rec = [c \in Callers |-> NoRecord]
    /\ result = [c \in Callers |-> NoResult]
    /\ unified = [c \in Callers |-> Absent]
    /\ f = [c \in Callers |-> FetchIdle]
    /\ last_fetch = FetchIdle
    /\ stats = [c \in Callers |-> NoStats]
    /\ lock = NoHolder
    /\ tokenizer_map = [n \in NormIds |-> Absent]
    /\ nextAddr = 1
    /\ calls = 0
    /\ scenario = [records |-> {}, single |-> FALSE]
    /\ faults = 0
    /\ fetched = {}
    /\ overlapped = FALSE

DetectInit ==
    /\ ResolverIdle
    /\ fs \in DetectFamily
    /\ heap = <<>>
    /\ held = [h \in Holders |-> NoValue]
    /\ out = NoOut

AdapterInit ==
    /\ ResolverIdle
    /\ fs \in LoadFamily
    /\ heap = <<>>
    /\ held = [h \in Holders |-> NoValue]
    /\ out = NoOut

\* detect_and_load_tokenizer(path), its result looked at and dropped.
DetectPath(p) ==
    /\ out' = [NoOut EXCEPT !.op = "detect", !.path = p,
                            !.res = [NoRes EXCEPT
                                !.ok = detect_and_load_tokenizer(fs, p).ok,
                                !.variant = detect_and_load_tokenizer(fs, p).variant,
                                !.table = detect_and_load_tokenizer(fs, p).table,
                                !.err = detect_and_load_tokenizer(fs, p).err]]
    /\ UNCHANGED <<resolver_vars, fs, heap, held>>

\* detect_and_load_tokenizer(path) succeeds and the tokenizer is kept (as
\* cached_tokenizer keeps it in the map): fresh, nothing configured.
Load(p) ==
    /\ held["memo"] = NoValue
    /\ Len(heap) < MaxObjects
    /\ detect_and_load_tokenizer(fs, p).ok
    /\ heap' = Append(heap, [variant |-> detect_and_load_tokenizer(fs, p).variant,
                             table |-> detect_and_load_tokenizer(fs, p).table,
                             truncation |-> NoParams, padding |-> NoParams])
    /\ held' = [held EXCEPT !["memo"] =
                    [variant |-> detect_and_load_tokenizer(fs, p).variant,
                     inner |-> Len(heap) + 1]]
    /\ out' = [NoOut EXCEPT !.op = "load", !.holder = "memo", !.path = p,
                            !.res = [NoRes EXCEPT !.ok = TRUE, !.inner = Len(heap) + 1]]
    /\ UNCHANGED <<resolver_vars, fs>>

\* The caller clones the UnifiedTokenizer out of the handle it was given
\* (#[derive(Clone)]: the inner Arc is cloned, the tokenizer shared).
CloneValue ==
    /\ held["memo"] # NoValue
    /\ held["caller"] # held["memo"]
    /\ held' = [held EXCEPT !["caller"] = held["memo"]]
    /\ out' = [NoOut EXCEPT !.op = "clone", !.holder = "caller",
                            !.res = [NoRes EXCEPT !.ok = TRUE, !.inner = held["memo"].inner]]
    /\ UNCHANGED <<resolver_vars, fs, heap>>

\* with_truncation applied to (a clone of) holder h's value; the caller
\* keeps what it returns.
WithTruncation(h, truncation) ==
    /\ held[h] # NoValue
    /\ Len(heap) < MaxObjects
    /\ heap' = with_truncation(heap, held[h], truncation).heap
    /\ held' = [held EXCEPT !["caller"] = with_truncation(heap, held[h], truncation).value]
    /\ out' = [NoOut EXCEPT !.op = "with_truncation", !.holder = h, !.params = truncation,
                            !.res = [NoRes EXCEPT !.ok = TRUE,
                                !.inner = with_truncation(heap, held[h], truncation).value.inner]]
    /\ UNCHANGED <<resolver_vars, fs>>

\* with_padding applied to (a clone of) holder h's value.
WithPadding(h, padding) ==
    /\ held[h] # NoValue
    /\ Len(heap) < MaxObjects
    /\ heap' = with_padding(heap, held[h], padding).heap
    /\ held' = [held EXCEPT !["caller"] = with_padding(heap, held[h], padding).value]
    /\ out' = [NoOut EXCEPT !.op = "with_padding", !.holder = h, !.params = padding,
                            !.res = [NoRes EXCEPT !.ok = TRUE,
                                !.inner = with_padding(heap, held[h], padding).value.inner]]
    /\ UNCHANGED <<resolver_vars, fs>>

\* encode_fast(text, add_special) on holder h's value.  Of the Encoding
\* returned, the ids are kept for both variants, the tokens and offsets for
\* the byte-pair adapter, which computes them itself.
Encode(h, text, add_special) ==
    /\ held[h] # NoValue
    /\ out' = [NoOut EXCEPT !.op = "encode", !.holder = h, !.text = text,
                            !.add_special = add_special,
                            !.res = [NoRes EXCEPT
                                !.ok = encode_fast(heap, held[h], text, add_special).ok,
                                !.ids = encode_fast(heap, held[h], text, add_special).ids,
                                !.tokens = IF held[h].variant = "TikToken"
                                           THEN tiktoken_tokens(heap[held[h].inner], text,
                                                                add_special)
                                           ELSE <<>>,
                                !.offsets = IF held[h].variant = "TikToken"
                                            THEN tiktoken_offsets(heap[held[h].inner], text,
                                                                  add_special)
                                            ELSE <<>>,
                                !.err = encode_fast(heap, held[h], text, add_special).err]]
    /\ UNCHANGED <<resolver_vars, fs, heap, held>>

\* count_text_tokens_with_fallback(tokenizer, text) with holder h's value,
\* or with None (h = NoHolder).
Count(h, text) ==
    /\ h # NoHolder => held[h] # NoValue
    /\ out' = [NoOut EXCEPT !.op = "count", !.holder = h, !.text = text,
                            !.res = [NoRes EXCEPT !.ok = TRUE,
                                !.count = count_text_tokens_with_fallback(
                                              heap, IF h = NoHolder THEN NoValue ELSE held[h],
                                              text)]]
    /\ UNCHANGED <<resolver_vars, fs, heap, held>>

DetectNext == \E p \in ProbePaths : DetectPath(p)

DetectSpec == DetectInit /\ [][DetectNext]_vars

AdapterNext ==
    \/ \E p \in LoadPaths : Load(p)
    \/ CloneValue
    \/ \E h \in Holders, t \in TruncationValues : WithTruncation(h, t)
    \/ \E h \in Holders, t \in PaddingValues : WithPadding(h, t)
    \/ \E h \in Holders, text \in Texts, add_special \in BOOLEAN : Encode(h, text, add_special)
    \/ \E h \in Holders \cup {NoHolder}, text \in Texts : Count(h, text)

AdapterSpec == AdapterInit /\ [][AdapterNext]_vars



(***************************************************************************)
(* Properties.                                                             *)
(***************************************************************************)
\* Two different callers whose latest calls both returned a tokenizer for the
\* same normalized model id.
SamePair(c, d) ==
    /\ c # d
    /\ result[c].kind = "OkSome"
    /\ result[d].kind = "OkSome"
    /\ model_id(c) = model_id(d)

\* C1: of two callers that resolved the same normalized id, at most one took
\* the miss path: that one entered the Fetcher once (for a remote source), ran
\* detection once, built one tokenizer and received at most one response
\* body (exactly one when the Fetcher relocated a file); the one answered from
\* the map fetched nothing, detected nothing and built nothing.
C1_OneDownloadOneConstruction ==
    /\ \A c \in Callers : result[c].kind = "OkSome" =>
          IF stats[c].hit
          THEN /\ stats[c].fetcher_calls = 0
               /\ stats[c].downloads = 0
               /\ stats[c].detects = 0
               /\ stats[c].builds = 0
          ELSE /\ stats[c].detects = 1
               /\ stats[c].builds = 1
               /\ stats[c].downloads <= 1
               /\ (Source(rec[c]).kind = "remote" => stats[c].fetcher_calls = 1)
    /\ \A c, d \in Callers : SamePair(c, d) => (stats[c].hit \/ stats[d].hit)
    /\ \A c \in Callers : pc[c] = "copying" => f[c].downloads = 1
    /\ last_fetch.outcome = "ok" => last_fetch.downloads = 1
    /\ last_fetch.outcome = "short" => last_fetch.downloads = 0

\* Two calls for the same remote id overlapped in time; one downloaded and
\* built, the other was answered from the map.
C1_Witness ==
    \E c, d \in Callers :
        /\ SamePair(c, d)
        /\ Source(rec[c]).kind = "remote"
        /\ overlapped
        /\ ~stats[c].hit /\ stats[c].downloads = 1 /\ stats[c].builds = 1
        /\ stats[d].hit

\* C2 as stated: two successful calls for the same normalized id return the
\* same Arc (one UnifiedTokenizer allocation).
C2_HandlesArcEqual ==
    \A c, d \in Callers : SamePair(c, d) => result[c].handle = result[d].handle

\* C2 amended: two successful calls for the same normalized id return
\* UnifiedTokenizer values that hold the same engine allocation, the one the
\* memo entry holds, each in an Arc of its own.
C2_SameEngineFreshHandles ==
    \A c, d \in Callers : SamePair(c, d) =>
        /\ result[c].tok = result[d].tok
        /\ result[c].tok = tokenizer_map[model_id(c)]
        /\ result[c].tok.engine # 0
        /\ result[c].handle # result[d].handle

\* A miss and a hit for the same id have both returned.
C2_Witness ==
    \E c, d \in Callers : SamePair(c, d) /\ ~stats[c].hit /\ stats[d].hit

\* C3: an entry of the memo map, once present, is never replaced.
C3_MemoWrittenOnce ==
    [][\A n \in NormIds :
          tokenizer_map[n].kind # "absent" => tokenizer_map'[n] = tokenizer_map[n]]_vars

\* A call has returned a tokenizer and its entry is in the map, and a further
\* call for the id holds the lock.
C3_Witness ==
    \E c, d \in Callers :
        /\ c # d
        /\ result[c].kind = "OkSome"
        /\ pc[d] = "locked"
        /\ model_id(c) = model_id(d)
        /\ tokenizer_map[model_id(c)].kind = "Some"

\* C4: a step in which a call fails or is abandoned leaves the memo map as it
\* was, and the map changes only in the step in which a call on the miss path
\* returns its tokenizer and releases the lock.
C4_FailureLeavesMemo ==
    [][/\ \A c \in Callers :
             (result'[c] # result[c] /\ result'[c].kind \in {"Err", "Abandoned"})
                => tokenizer_map' = tokenizer_map
       /\ tokenizer_map' # tokenizer_map =>
             \E c \in Callers :
                /\ pc[c] = "insert" /\ lock = c
                /\ pc'[c] = "idle" /\ lock' = NoHolder
                /\ result'[c].kind = "OkSome"
                /\ tokenizer_map' = [tokenizer_map EXCEPT ![model_id(c)] = result'[c].tok]
                /\ tokenizer_map[model_id(c)].kind = "absent"]_vars

\* A call failed in the Fetcher, and a later call for the same id found no
\* entry and is on the miss path again.
C4_Witness ==
    \E c, d \in Callers :
        /\ c # d
        /\ result[c].kind = "Err"
        /\ stats[c].fetcher_calls = 1
        /\ pc[d] = "attempt"
        /\ model_id(c) = model_id(d)

\* C5 as stated: after a call for a "fake" descriptor returned Ok(None), the
\* memo map holds an explicit None entry for the id.
C5_FakeMemoizesNone ==
    \A c \in Callers :
        (result[c].kind = "OkNone" /\ Source(rec[c]).kind = "fake")
            => tokenizer_map[model_id(c)] = NoneEntry

\* C6 as stated: every attempt that follows a failed attempt sends a new
\* HTTP request (an attempt that fails to create the temporary directory
\* left aside): no attempt goes on with the file an earlier attempt left.
C6_EveryRetryDownloads ==
    /\ \A c \in Callers :
          (f[c].outcome = "running" /\ f[c].attempts >= 2) => ~f[c].reused
    /\ last_fetch.attempts >= 2 => ~last_fetch.reused

\* C7: attempt k is preceded by k-1 sleeps; a call that finds every response
\* non-2xx sends 15 requests with 14 sleeps and returns the last attempt's
\* message; a call that succeeds on attempt k has made k attempts and k-1
\* sleeps.
C7_RetryBudget ==
    /\ \A c \in Callers :
          /\ pc[c] = "attempt" =>
                /\ f[c].attempts = f[c].i
                /\ f[c].i < MaxAttempts
                /\ f[c].delays = (IF f[c].i = 0 THEN 0 ELSE f[c].i - 1)
          /\ pc[c] = "copying" =>
                /\ f[c].attempts = f[c].i + 1
                /\ f[c].delays = f[c].i
    /\ last_fetch.outcome = "ok" =>
          /\ last_fetch.attempts \in 1..MaxAttempts
          /\ last_fetch.delays = last_fetch.attempts - 1
    /\ last_fetch.outcome = "err" =>
          /\ last_fetch.attempts = 15
          /\ last_fetch.delays = 14
          /\ last_fetch.all_non2xx =>
                /\ last_fetch.all_issued
                /\ last_fetch.last_error
                     = "failed to download tokenizer: failed to get response: status"
          /\ result[last_fetch.caller].kind = "Err" =>
                result[last_fetch.caller].msg = last_fetch.last_error

\* Every response was non-2xx and the budget is spent.
C7_Witness ==
    /\ last_fetch.outcome = "err"
    /\ last_fetch.all_non2xx
    /\ result[last_fetch.caller].kind = "Err"

\* C8: a Fetcher call that finds a valid file at the target returns at once:
\* no request, no temporary file, no write to the target, the target as it
\* was; a Fetcher call made after one that returned Ok is such a call.
C8_ShortCircuitIdempotent ==
    /\ \A c \in Callers : f[c].outcome = "running" =>
          /\ f[c].entry # "tok"
          /\ ~f[c].after_ok
    /\ last_fetch.outcome # "none" /\ (last_fetch.entry = "tok" \/ last_fetch.after_ok) =>
          /\ last_fetch.outcome = "short"
          /\ last_fetch.entry = "tok"
          /\ ~last_fetch.requested
          /\ last_fetch.attempts = 0
          /\ last_fetch.tmp = "none"
          /\ ~last_fetch.wrote
    /\ last_fetch.outcome = "short" /\ pc[last_fetch.caller] = "detect" =>
          fs[Target] = last_fetch.entry

\* A second Fetcher call after a successful one has returned at once.
C8_Witness ==
    /\ last_fetch.outcome = "short"
    /\ last_fetch.after_ok
    /\ ~last_fetch.requested

\* C9 as stated: the target path never holds a partially written file.
C9_TargetNeverPartial ==
    fs[Target] # "trunc"

\* C10: the Fetcher short-circuits only on a target that validated, and a
\* tokenizer about to be memoized, or returned from the miss path, for a
\* remote source was built from a target file that validated.
C10_OnlyValidatedTargets ==
    /\ last_fetch.outcome = "short" => last_fetch.entry = "tok"
    /\ \A c \in Callers :
          (pc[c] \in {"detect", "insert"} /\ Source(rec[c]).kind = "remote") =>
              Tokenizer_from_file(At(fs, tok_file_path(c)))
    /\ \A c \in Callers :
          (pc[c] = "insert" /\ Source(rec[c]).kind = "remote") =>
              unified[c].variant = "HuggingFace"
    /\ \A c \in Callers :
          (result[c].kind = "OkSome" /\ ~stats[c].hit /\ Source(rec[c]).kind = "remote") =>
              Tokenizer_from_file(At(fs, tok_file_path(c)))

\* The target held an invalid file when the Fetcher was entered; the Fetcher
\* downloaded, and the tokenizer built from the new file is about to be
\* memoized.
C10_Witness ==
    \E c \in Callers :
        /\ pc[c] = "insert"
        /\ Source(rec[c]).kind = "remote"
        /\ last_fetch.caller = c
        /\ last_fetch.entry = "garbage"
        /\ last_fetch.outcome = "ok"

\* C15 as stated: a call for a descriptor that starts with "fake" returns
\* Ok(None), whatever calls came before, and enters neither the Fetcher nor
\* detection.
C15_FakeAlwaysNone ==
    \A c \in Callers :
        (pc[c] = "idle" /\ result[c].kind \notin {"none", "Abandoned"}
            /\ StartsWith(descriptor(c), FakePrefix)) =>
                /\ result[c] = OkNone
                /\ stats[c].fetcher_calls = 0
                /\ stats[c].detects = 0

\* C15 amended: the step a call for a "fake" descriptor takes with the lock
\* is its return: Ok(None) when the map holds no entry for the normalized id,
\* the entry when it does (a tokenizer memoized for another descriptor of the
\* id); the step touches neither the filesystem, the Fetcher nor the map.
C15_FakeNoneOnMiss ==
    [][\A c \in Callers :
          (pc[c] = "locked" /\ StartsWith(descriptor(c), FakePrefix)
              /\ (pc'[c] # pc[c] \/ result'[c] # result[c])) =>
                /\ pc'[c] = "idle"
                /\ lock' = NoHolder
                /\ fs' = fs /\ f' = f /\ last_fetch' = last_fetch
                /\ tokenizer_map' = tokenizer_map
                /\ stats'[c].fetcher_calls = 0 /\ stats'[c].detects = 0
                /\ \/ result'[c] = Abandoned
                   \/ /\ tokenizer_map[model_id(c)].kind = "absent"
                      /\ result'[c] = OkNone
                   \/ /\ tokenizer_map[model_id(c)].kind = "Some"
                      /\ result'[c].kind = "OkSome"
                      /\ result'[c].tok = tokenizer_map[model_id(c)]]_vars

\* A call for a "fake" descriptor has returned Ok(None) on a miss, and the
\* model's other descriptor has been resolved and memoized since.
C15_Witness ==
    \E c, d \in Callers :
        /\ c # d
        /\ pc[c] = "idle" /\ pc[d] = "idle"
        /\ result[c] = OkNone
        /\ result[d].kind = "OkSome"
        /\ StartsWith(descriptor(c), FakePrefix)
        /\ model_id(c) = model_id(d)
        /\ tokenizer_map[model_id(c)].kind = "Some"

\* C16 as stated: a call for an empty descriptor fails, whatever calls came
\* before, never returns Ok, and enters neither the Fetcher nor detection.
C16_EmptyAlwaysFails ==
    \A c \in Callers :
        (pc[c] = "idle" /\ result[c].kind \notin {"none", "Abandoned"}
            /\ Len(descriptor(c)) = 0) =>
                /\ result[c].kind = "Err"
                /\ stats[c].fetcher_calls = 0
                /\ stats[c].detects = 0

\* C16 amended: the step a call for an empty descriptor takes with the lock
\* is its return: the error "failed to load tokenizer: empty tokenizer" when
\* the map holds no entry for the normalized id, the entry when it does; the
\* step touches neither the filesystem, the Fetcher nor the map, so a
\* repeated call on a miss fails again.
C16_EmptyFailsOnMiss ==
    [][\A c \in Callers :
          (pc[c] = "locked" /\ Len(descriptor(c)) = 0
              /\ (pc'[c] # pc[c] \/ result'[c] # result[c])) =>
                /\ pc'[c] = "idle"
                /\ lock' = NoHolder
                /\ fs' = fs /\ f' = f /\ last_fetch' = last_fetch
                /\ tokenizer_map' = tokenizer_map
                /\ stats'[c].fetcher_calls = 0 /\ stats'[c].detects = 0
                /\ \/ result'[c] = Abandoned
                   \/ /\ tokenizer_map[model_id(c)].kind = "absent"
                      /\ result'[c] = Err("failed to load tokenizer: empty tokenizer")
                   \/ /\ tokenizer_map[model_id(c)].kind = "Some"
                      /\ result'[c].kind = "OkSome"
                      /\ result'[c].tok = tokenizer_map[model_id(c)]]_vars

\* Two calls for an empty descriptor have failed, one after the other.
C16_Witness ==
    \E c, d \in Callers :
        /\ c # d
        /\ pc[c] = "idle" /\ pc[d] = "idle"
        /\ ~overlapped
        /\ result[c].kind = "Err" /\ result[d].kind = "Err"
        /\ Len(descriptor(c)) = 0 /\ Len(descriptor(d)) = 0

\* C18: at most one call is between taking the lock and returning, it is the
\* lock's holder, a call that is not there holds no lock, and the map changes
\* only in a step of the holder.
C18_LockTotalOrder ==
    /\ [](\A c, d \in Callers :
             (pc[c] \notin {"idle", "wait_lock"} /\ pc[d] \notin {"idle", "wait_lock"})
                => c = d)
    /\ [](\A c \in Callers : (pc[c] \notin {"idle", "wait_lock"}) <=> (lock = c))
    /\ [][\A c \in Callers :
             (pc[c] \notin {"idle", "wait_lock"}) =>
                 \A d \in Callers \ {c} :
                    \/ pc'[d] = pc[d]
                    \/ pc[d] \in {"idle", "wait_lock"} /\ pc'[d] \in {"idle", "wait_lock"}]_vars
    /\ [][tokenizer_map' # tokenizer_map =>
             \E c \in Callers : lock = c /\ pc[c] = "insert" /\ pc'[c] = "idle"]_vars

\* One call is in the Fetcher's loop while another waits for the lock.
C18_Witness ==
    \E c, d \in Callers : pc[c] = "copying" /\ lock = c /\ pc[d] = "wait_lock"

\* C19: a call that has returned holds no lock, a call that waits for the
\* lock holds no guard on the global context, and every call returns.
C19_EveryCallReturns ==
    /\ [](\A c \in Callers : pc[c] = "idle" => lock # c)
    /\ [](\A c \in Callers : pc[c] = "wait_lock" => GuardHeld(pc[c]) = "none")
    /\ \A c \in Callers : (pc[c] # "idle") ~> (pc[c] = "idle")

\* Both callers are inside cached_tokenizer, one of them about to insert.
C19_Witness ==
    \E c, d \in Callers : pc[c] = "insert" /\ pc[d] = "wait_lock"


\* C11: with_truncation and with_padding have value semantics.  Whenever
\* either is applied to a holder's value, the instance returned is a new one
\* (an address no holder had), the memoized value stays as it was, and for
\* every value held before the step (the memoized copy and a caller's clone
\* of it, which share one tokenizer) the truncation and padding settings
\* behind it, and the result of encoding every text through it, are after the
\* step what they were before it.  Both variants are covered.
C11_ValueSemantics ==
    [][ (/\ out'.op \in {"with_truncation", "with_padding"}
         /\ <<heap, held, out>>' # <<heap, held, out>>)
        => /\ held'["caller"].inner \notin 1..Len(heap)
           /\ held'["caller"].variant = held[out'.holder].variant
           /\ held'["memo"] = held["memo"]
           /\ \A h \in Holders :
                 held[h] # NoValue =>
                    /\ heap'[held[h].inner] = heap[held[h].inner]
                    /\ \A text \in Texts, add_special \in BOOLEAN :
                          encode_fast(heap', held[h], text, add_special)
                              = encode_fast(heap, held[h], text, add_special) ]_vars

\* A caller that shared the memoized tokenizer has configured a truncation
\* on its clone: it now holds another instance, whose setting differs from
\* the memoized one's.
C11_Witness ==
    /\ out.op = "with_truncation"
    /\ out.holder = "caller"
    /\ out.params.set
    /\ held["memo"] # NoValue
    /\ held["caller"].inner # held["memo"].inner
    /\ heap[held["caller"].inner].truncation = out.params
    /\ heap[held["memo"].inner].truncation = NoParams

\* The latest operation was detection applied to an existing file whose name
\* ends in .model.
DetectedModelFile ==
    /\ out.op = "detect"
    /\ is_file(fs, out.path)
    /\ extension(out.path) = ModelExt

\* What detection returned, as the fields of out.res it fills.
DetectRes(fsys, p) ==
    [NoRes EXCEPT !.ok = detect_and_load_tokenizer(fsys, p).ok,
                  !.variant = detect_and_load_tokenizer(fsys, p).variant,
                  !.table = detect_and_load_tokenizer(fsys, p).table,
                  !.err = detect_and_load_tokenizer(fsys, p).err]

\* C12 as stated: detection of an existing file whose name ends in .model
\* yields the byte-pair adapter, whatever the file holds and whatever else is
\* in its directory.
C12_ModelFileAlwaysFormatB ==
    DetectedModelFile => out.res.ok /\ out.res.variant = "TikToken"

\* C12, amended: detection of an existing file whose name ends in .model
\* never looks at the file's content (the result is the same for every
\* content the file could have), and yields the byte-pair adapter unless the
\* file's directory holds a tokenizer.json that parses (then the
\* vocabulary-table tokenizer is loaded from that file) or a
\* tokenizer_config.json that does not parse (then building the adapter
\* fails with a parse error).
C12_ModelFileFormatBUnlessSiblings ==
    DetectedModelFile =>
       /\ \A content \in {"bpe", "garbage", "tok", "trunc"} :
             DetectRes([fs EXCEPT ![out.path] = content], out.path) = out.res
       /\ IF Tokenizer_from_file(At(fs, join(parent(out.path), TokenizerJson)))
          THEN out.res.ok /\ out.res.variant = "HuggingFace"
          ELSE IF /\ exists(fs, join(parent(out.path), TokenizerConfigJson))
                  /\ ~ParseConfig(At(fs, join(parent(out.path), TokenizerConfigJson))).ok
          THEN ~out.res.ok /\ out.res.err = "Failed to parse tokenizer_config.json"
          ELSE out.res.ok /\ out.res.variant = "TikToken"

\* Detection was applied to a .model file that holds no byte-pair table, in a
\* directory with an unparsable tokenizer.json beside it, and built the
\* byte-pair adapter.
C12_Witness ==
    /\ DetectedModelFile
    /\ At(fs, out.path) = "garbage"
    /\ At(fs, join(parent(out.path), TokenizerJson)) = "garbage"
    /\ out.res.ok
    /\ out.res.variant = "TikToken"

\* The three results detection can have, as the claims name them.  FormatB
\* covers the byte-pair branch: the adapter built, or its construction failing
\* on a side-car it cannot parse.
YieldsFormatA == out.res.ok /\ out.res.variant = "HuggingFace"
YieldsFormatB ==
    \/ out.res.ok /\ out.res.variant = "TikToken"
    \/ ~out.res.ok /\ out.res.err = "Failed to parse tokenizer_config.json"
YieldsUnrecognized == ~out.res.ok /\ out.res.err = "No valid tokenizer format found"

\* The part of C13 about directories, which the two statements share.
DirectoryDetection ==
    (out.op = "detect" /\ is_dir(fs, out.path)) =>
        IF Tokenizer_from_file(At(fs, join(out.path, TokenizerJson)))
        THEN YieldsFormatA
        ELSE IF exists(fs, join(out.path, TiktokenModel))
        THEN YieldsFormatB
        ELSE YieldsUnrecognized

\* C13 as stated: a directory with a tokenizer.json that parses yields the
\* vocabulary-table format (also beside a tiktoken.model), a directory
\* without one but with a tiktoken.model yields the byte-pair format, a
\* directory with neither yields "No valid tokenizer format found", and so
\* does every path that does not exist.
C13_DirectoryAndMissingPath ==
    /\ DirectoryDetection
    /\ (out.op = "detect" /\ ~exists(fs, out.path)) => YieldsUnrecognized

\* C13, amended: the same for directories (where the byte-pair format
\* means the adapter is built unless the directory's tokenizer_config.json
\* does not parse, which is reported as a parse error); a path that does not
\* exist yields "No valid tokenizer format found" unless its name does not
\* end in .json and its parent directory holds a tokenizer.json that parses,
\* in which case the vocabulary-table tokenizer is loaded from that file.
C13_DirectoryAndMissingPathUnlessSibling ==
    /\ DirectoryDetection
    /\ (out.op = "detect" /\ is_dir(fs, out.path) /\ YieldsFormatB) =>
          (out.res.ok <=>
             ~(/\ exists(fs, join(out.path, TokenizerConfigJson))
               /\ ~ParseConfig(At(fs, join(out.path, TokenizerConfigJson))).ok))
    /\ (out.op = "detect" /\ ~exists(fs, out.path)) =>
          IF /\ extension(out.path) # JsonExt
             /\ Tokenizer_from_file(At(fs, join(parent(out.path), TokenizerJson)))
          THEN YieldsFormatA
          ELSE YieldsUnrecognized

\* Detection was applied to a directory that holds a valid tokenizer.json
\* beside a tiktoken.model, and loaded the vocabulary-table tokenizer.
C13_Witness ==
    /\ out.op = "detect"
    /\ is_dir(fs, out.path)
    /\ At(fs, join(out.path, TokenizerJson)) = "tok"
    /\ At(fs, join(out.path, TiktokenModel)) = "bpe"
    /\ YieldsFormatA

\* The text of the end-to-end scenario: "Hello, world!".
HelloWorld == <<"H", "e", "l", "l", "o", ",", " ", "w", "o", "r", "l", "d", "!">>

\* C14: a call for a model record whose descriptor is a local directory that
\* holds a byte-pair table file with an r50k hint (the directory /r50k with
\* its tiktoken.model, the directory /q with its r50k.model) returns a
\* tokenizer without having entered the Fetcher, the tokenizer is the
\* byte-pair adapter over the r50k table, and encoding "Hello, world!" with
\* it gives a non-empty id sequence, the same on every run.
C14_R50kDirectoryUsesR50k ==
    \A c \in Callers :
        (result[c].kind \in {"OkSome", "OkNone", "Err"} /\ rec[c] \in {"r50k", "r50kfile"}) =>
            /\ result[c].kind = "OkSome"
            /\ stats[c].fetcher_calls = 0
            /\ result[c].tok.variant = "TikToken"
            /\ result[c].tok.table = "r50k_base"
            /\ LET adapter == [variant |-> "TikToken", table |-> result[c].tok.table,
                               truncation |-> NoParams, padding |-> NoParams]
               IN  /\ tiktoken_encode_fast(adapter, HelloWorld, FALSE).ok
                   /\ tiktoken_encode_fast(adapter, HelloWorld, FALSE).ids # <<>>
                   /\ tiktoken_encode_fast(adapter, HelloWorld, FALSE)
                          = tiktoken_encode_fast(adapter, HelloWorld, TRUE)

\* The tokenizer the latest count was given (NoValue for None).
CountedWith == IF out.holder = NoHolder THEN NoValue ELSE held[out.holder]

\* C17: count_text_tokens_with_fallback returns a count for every text and
\* tokenizer.  With no tokenizer, or with a tokenizer whose encode fails, the
\* count is 1 + floor(2 * byte_length(text) / 7), which is 2 for "hello";
\* when encode succeeds the count is the number of ids in the encoding
\* (encoded without special tokens).
C17_FallbackCount ==
    out.op = "count" =>
       /\ out.res.ok
       /\ out.res.count \in Nat
       /\ IF CountedWith = NoValue \/ ~encode_fast(heap, CountedWith, out.text, FALSE).ok
          THEN /\ 7 * (out.res.count - 1) <= 2 * Len(out.text)
               /\ 2 * Len(out.text) < 7 * out.res.count
               /\ out.text = <<"h","e","l","l","o">> => out.res.count = 2
          ELSE out.res.count = Len(encode_fast(heap, CountedWith, out.text, FALSE).ids)

\* A count was asked for with a tokenizer that cannot encode the text, and
\* the estimate was returned.
C17_Witness ==
    /\ out.op = "count"
    /\ CountedWith # NoValue
    /\ ~encode_fast(heap, CountedWith, out.text, FALSE).ok
    /\ out.res.count = 1
    /\ Len(out.text) = 2

\* The byte-pair adapter the latest encode went through, and the id sequence
\* of its text before any truncation.
EncodedAdapter == heap[held[out.holder].inner]
Untruncated == encode_ordinary(EncodedAdapter.table, out.text)

\* C20: the byte-pair adapter truncates by prefix.  With truncation set to
\* max_length m, encode of a text whose untruncated id sequence t has n ids
\* returns the first min(n, m) ids of t in order (none when m = 0); with no
\* truncation set it returns t; add_special adds no ids (the result is the
\* same with and without it).
C20_PrefixTruncation ==
    (out.op = "encode" /\ held[out.holder].variant = "TikToken") =>
       /\ out.res.ok
       /\ IF EncodedAdapter.truncation.set
          THEN /\ Len(out.res.ids) = (IF Len(Untruncated) < EncodedAdapter.truncation.n
                                      THEN Len(Untruncated)
                                      ELSE EncodedAdapter.truncation.n)
               /\ \A i \in 1..Len(out.res.ids) : out.res.ids[i] = Untruncated[i]
               /\ EncodedAdapter.truncation.n = 0 => out.res.ids = <<>>
          ELSE out.res.ids = Untruncated
       /\ out.res.ids = encode_fast(heap, held[out.holder], out.text, ~out.add_special).ids

\* A byte-pair adapter with max_length 1 encoded, with add_special, a text
\* of more than one id, and returned the first id alone.
C20_Witness ==
    /\ out.op = "encode"
    /\ held[out.holder].variant = "TikToken"
    /\ out.add_special
    /\ EncodedAdapter.truncation = SomeParams(1)
    /\ Len(Untruncated) > 1
    /\ out.res.ids = <<Untruncated[1]>>

\* C21: in every encoding the byte-pair adapter produces there is one
\* offset pair and one token string per returned id, the first pair starts
\* at 0, every pair ends its token's decoded string's byte length after it
\* starts, and every later pair starts where the one before it ends, so that
\* starts and ends never decrease.  The decoded string is the one the
\* Encoding carries: the token's bytes, or "token_<id>" when they do not
\* decode.
C21_OffsetsContiguous ==
    (out.op = "encode" /\ held[out.holder].variant = "TikToken") =>
       /\ Len(out.res.offsets) = Len(out.res.ids)
       /\ Len(out.res.tokens) = Len(out.res.ids)
       /\ out.res.ids # <<>> => out.res.offsets[1][1] = 0
       /\ \A i \in 1..Len(out.res.ids) :
             /\ out.res.tokens[i]
                   = decode_or_token_id(heap[held[out.holder].inner].table, out.res.ids[i])
             /\ out.res.offsets[i][2] = out.res.offsets[i][1] + Len(out.res.tokens[i])
             /\ i > 1 => /\ out.res.offsets[i][1] = out.res.offsets[i - 1][2]
                         /\ out.res.offsets[i][1] >= out.res.offsets[i - 1][1]
                         /\ out.res.offsets[i][2] >= out.res.offsets[i - 1][2]

\* The byte-pair adapter encoded a text into three ids of which the last two
\* do not decode alone: their strings are "token_<id>", and the offsets run
\* on from one to the next over those strings.
C21_Witness ==
    /\ out.op = "encode"
    /\ held[out.holder].variant = "TikToken"
    /\ Len(out.res.ids) = 3
    /\ Len(out.res.tokens[2]) > 2
    /\ out.res.offsets[1] = <<0, 1>>
    /\ out.res.offsets[2][1] = 1
    /\ out.res.offsets[3][1] = out.res.offsets[2][2]
    /\ out.res.offsets[3][2] > Len(out.text)

\* C22: the memo is keyed by the normalized model id alone.  The step a call
\* takes with the lock when the map holds an entry for its normalized id is
\* its return of that entry, whatever descriptor and credential its record
\* carries (empty, the fake marker, another source than the one resolved
\* first): it reads no descriptor, touches neither the filesystem, the
\* Fetcher nor the map.  So any two calls that returned a tokenizer for one
\* normalized id returned the same one, that of the record resolved first.
C22_MemoKeyedByNormalizedId ==
    /\ [][\A c \in Callers :
             (pc[c] = "locked" /\ tokenizer_map[model_id(c)].kind # "absent"
                 /\ (pc'[c] # pc[c] \/ result'[c] # result[c])) =>
                   /\ pc'[c] = "idle"
                   /\ tokenizer_map' = tokenizer_map
                   /\ fs' = fs /\ f' = f /\ last_fetch' = last_fetch
                   /\ stats'[c].fetcher_calls = 0 /\ stats'[c].detects = 0
                   /\ stats'[c].builds = 0
                   /\ \/ result'[c] = Abandoned
                      \/ /\ tokenizer_map[model_id(c)].kind = "Some"
                         /\ result'[c].kind = "OkSome"
                         /\ result'[c].tok = tokenizer_map[model_id(c)]
                      \/ /\ tokenizer_map[model_id(c)].kind = "None"
                         /\ result'[c] = OkNone]_vars
    /\ [](\A c, d \in Callers :
             (c # d /\ result[c].kind = "OkSome" /\ result[d].kind = "OkSome"
                 /\ model_id(c) = model_id(d)) =>
                   /\ result[c].tok = result[d].tok
                   /\ result[c].tok = tokenizer_map[model_id(c)])

\* Two records with one normalized id, different tokenizer sources and
\* different credentials have been resolved: the second call was answered by
\* the map with the tokenizer built for the first, which is not the one its
\* own source would give.
C22_Witness ==
    \E c, d \in Callers :
        /\ c # d
        /\ result[c].kind = "OkSome"
        /\ result[d].kind = "OkSome"
        /\ rec[c] = "dfile"
        /\ rec[d] = "dir"
        /\ model_id(c) = model_id(d)
        /\ descriptor(c) # descriptor(d)
        /\ stats[c].hit
        /\ stats[d].builds = 1
        /\ result[c].tok = result[d].tok
        /\ result[c].tok.table # detect_and_load_tokenizer(fs, tok_file_path(c)).table

\* Caller d's latest call downloaded the tokenizer of a remote model and
\* returned it, and the latest Fetcher call, by another caller for a remote
\* model with another normalized id that sanitizes alike, began after that.
SecondAfterDownload(c, d) ==
    /\ c # d
    /\ last_fetch.outcome # "none"
    /\ last_fetch.caller = c
    /\ last_fetch.after_ok
    /\ rec[d] # NoRecord
    /\ Source(rec[c]).kind = "remote"
    /\ Source(rec[d]).kind = "remote"
    /\ model_id(c) # model_id(d)
    /\ sanitized_model_id(model_id(c)) = sanitized_model_id(model_id(d))
    /\ result[d].kind = "OkSome"
    /\ stats[d].downloads >= 1

\* C23: the cache path of a remote model is a function of its sanitized id,
\* not of its URL: records whose normalized ids sanitize to one string have
\* one cache path ("a/b" and "a_b" differ and share theirs), and resolving
\* the second of two such models after the first was downloaded returns at
\* once from the Fetcher on the first model's file: no request to the second
\* model's URL, no download, and the tokenizer returned is loaded from that
\* file.
C23_CachePathBySanitizedId ==
    /\ \A r1, r2 \in scenario.records :
          sanitized_model_id(NormId(r1)) = sanitized_model_id(NormId(r2))
              => CachePath(NormId(r1)) = CachePath(NormId(r2))
    /\ NormId("hf") # NormId("http")
    /\ Source("hf").url # Source("http").url
    /\ CachePath(NormId("hf")) = CachePath(NormId("http"))
    /\ \A c, d \in Callers :
          SecondAfterDownload(c, d) =>
             /\ tok_file_path(c) = tok_file_path(d)
             /\ last_fetch.outcome = "short"
             /\ last_fetch.entry = "tok"
             /\ ~last_fetch.requested
             /\ last_fetch.attempts = 0
             /\ last_fetch.downloads = 0
             /\ pc[c] = "idle" /\ result[c].kind = "OkSome" =>
                   /\ stats[c].downloads = 0
                   /\ result[c].tok.variant = "HuggingFace"

\* The model "a_b" was resolved after "a/b" had been downloaded, and got a
\* tokenizer from the file downloaded for "a/b" without any request.
C23_Witness ==
    \E c, d \in Callers :
        /\ SecondAfterDownload(c, d)
        /\ rec[c] = "http"
        /\ rec[d] = "hf"
        /\ pc[c] = "idle"
        /\ result[c].kind = "OkSome"
        /\ ~last_fetch.requested
        /\ stats[c].downloads = 0

=========================================================================
